---------------------------- MODULE Spec2Model ----------------------------
(***************************************************************************)
(* HierarchicalTokenBucket (src/src/index.ts) as a state machine.          *)
(*                                                                         *)
(* Units.  Date.now() is an integer number of milliseconds.  refillRate is *)
(* an integer number of tokens per second.  Capacities are kept in         *)
(* thousandths of a token (Token = 1000 units), so that                    *)
(*     refillRate * (elapsedMs / 1000)   tokens                            *)
(* is exactly  refillRate * elapsedMs  units: the arithmetic of the code   *)
(* is done exactly, as over the reals (floating-point rounding is not      *)
(* modelled).  The number take() returns is a number of SECONDS            *)
(* ((1 - capacity) / refillRate, refillRate being per second); it is kept  *)
(* in units of 1 / (1000 * WaitDen) second, WaitDen a common multiple of   *)
(* the refill rates, so that the division is exact as well.                *)
(***************************************************************************)
EXTENDS Integers, Sequences, FiniteSets

\* elapsedTimeInSeconds = (currentTimestamp - lastTimestamp) / 1000
MsPerSecond == 1000

\* One token, in capacity units.
Token == MsPerSecond

(***************************************************************************)
(* Bounds of the model.                                                    *)
(***************************************************************************)
\* Buckets constructed while the program runs (Spec).
MaxBuckets == 2
\* Calls of withTokenBucket.
MaxCalls == 2
\* Calls of take.
MaxTakes == 3
\* The clock stops after MaxClock half seconds.
MaxClock == 2

HalfSecond == MsPerSecond \div 2

\* The values of options.parent / firstTimestamp that stand for undefined.
NoParent == 0
Undefined == -1

(***************************************************************************)
(* Inputs: the option pairs <<maximumCapacity, refillRate>> a caller may   *)
(* pass while the program runs, valid ones (1 token, refilled at 1 or 2    *)
(* tokens per second) and invalid ones (maximumCapacity 0.5; refillRate    *)
(* 0); and the bucket trees a program may build when it starts: the        *)
(* options of their buckets (also 1.5 tokens) and their shapes, a shape    *)
(* giving the parent of each bucket in construction order (a single        *)
(* bucket; parent and child; a chain of three; a parent with two           *)
(* children; a parent with one child beside another root).                 *)
(***************************************************************************)
ValidOptions == { <<Token, 1>>, <<Token, 2>> }

InvalidOptions == { <<Token \div 2, 1>>, <<Token, 0>> }

OptionInputs == ValidOptions \cup InvalidOptions

TreeOptions == ValidOptions \cup { <<(3 * Token) \div 2, 1>> }

Shapes == { <<0>>, <<0, 1>>, <<0, 1, 2>>, <<0, 1, 1>>, <<0, 1, 0>> }

\* child() called without an argument.
NoOptions == <<>>

\* The field of last that holds the metadata read, after any other operation.
NoMetadata == <<>>

RefillRates == { o[2] : o \in TreeOptions }

RECURSIVE Product(_)
Product(S) ==
    IF S = {} THEN 1 ELSE LET x == CHOOSE y \in S : TRUE IN x * Product(S \ {x})

\* A common multiple of the refill rates.
WaitDen == Product(RefillRates)

\* A wait of one millisecond / one second, in wait units.
WaitMs == WaitDen
WaitSecond == MsPerSecond * WaitDen

VARIABLES
    now,      \* Date.now(), milliseconds
    buckets,  \* the HierarchicalTokenBucket objects constructed so far
    last,     \* the last operation and how it ended
    log,      \* the calls of take() made by callers, in call order
    tasks     \* the calls of withTokenBucket, in call order

vars == <<now, buckets, last, log, tasks>>

Max(a, b) == IF a >= b THEN a ELSE b
Min(a, b) == IF a <= b THEN a ELSE b

Ids == 1..Len(buckets)

(***************************************************************************)
(* constructor                                                             *)
(***************************************************************************)
\* Mutant: the capacity check accepts any positive maximumCapacity.
OptionsOk_anyPositive(maximumCapacity, refillRate) ==
    /\ maximumCapacity > 0
    /\ refillRate > 0

\* !(maximumCapacity >= 1) and !(refillRate > 0) both false.
OptionsOk(maximumCapacity, refillRate) ==
    /\ maximumCapacity >= Token
    /\ refillRate > 0

NewBucket(maximumCapacity, refillRate, parent, clock) ==
    [ options |-> [ maximumCapacity |-> maximumCapacity,
                    refillRate |-> refillRate,
                    parent |-> parent ],
      lastTimestamp |-> clock,
      capacity |-> maximumCapacity,
      firstTimestamp |-> Undefined,
      count |-> 0 ]

\* new HierarchicalTokenBucket({maximumCapacity, refillRate, parent})
Construct(maximumCapacity, refillRate, parent) ==
    /\ Len(buckets) < MaxBuckets
    /\ IF OptionsOk(maximumCapacity, refillRate)
       THEN /\ buckets' = Append(buckets,
                   NewBucket(maximumCapacity, refillRate, parent, now))
            /\ last' = [ op |-> "constructor", b |-> Len(buckets) + 1, threw |-> FALSE,
                         maximumCapacity |-> maximumCapacity,
                         refillRate |-> refillRate,
                         metadata |-> NoMetadata ]
       ELSE /\ buckets' = buckets
            /\ last' = [ op |-> "constructor", b |-> parent, threw |-> TRUE,
                         maximumCapacity |-> maximumCapacity,
                         refillRate |-> refillRate,
                         metadata |-> NoMetadata ]
    /\ UNCHANGED <<now, log, tasks>>

New(o, parent) == Construct(o[1], o[2], parent)

(***************************************************************************)
(* child                                                                   *)
(***************************************************************************)
\* Mutant: the overrides are ignored, the child gets the parent's options.
Child_ignoresOverrides(p, o) ==
    Construct(buckets[p].options.maximumCapacity,
              buckets[p].options.refillRate,
              p)

\* buckets[p].child(o), o the overrides or NoOptions.
Child(p, o) ==
    Construct(IF o # NoOptions THEN o[1] ELSE buckets[p].options.maximumCapacity,
              IF o # NoOptions THEN o[2] ELSE buckets[p].options.refillRate,
              p)

(***************************************************************************)
(* take                                                                    *)
(***************************************************************************)
\* !this.firstTimestamp: undefined and 0 are both falsy.
addOneToMetrics(bucket, clock) ==
    [ bucket EXCEPT
        !.firstTimestamp =
            IF @ = Undefined \/ @ = 0 THEN clock ELSE @,
        !.count = @ + 1 ]

\* Mutant: the refill is not clamped to maximumCapacity.
refreshCapacity_noClamp(bucket, clock) ==
    LET elapsedTimeInMs == clock - bucket.lastTimestamp
    IN [ bucket EXCEPT
           !.lastTimestamp = clock,
           !.capacity = @ + bucket.options.refillRate * elapsedTimeInMs ]

\* Mutant: the elapsed milliseconds are not divided by 1000.
refreshCapacity_elapsedInMs(bucket, clock) ==
    LET elapsedTimeInMs == clock - bucket.lastTimestamp
    IN [ bucket EXCEPT
           !.lastTimestamp = clock,
           !.capacity = Min(@ + bucket.options.refillRate * elapsedTimeInMs * MsPerSecond,
                            bucket.options.maximumCapacity) ]

\* Mutant: the reading of the clock is not stored as lastTimestamp.
refreshCapacity_keepsLastTimestamp(bucket, clock) ==
    LET elapsedTimeInMs == clock - bucket.lastTimestamp
    IN [ bucket EXCEPT
           !.capacity = Min(@ + bucket.options.refillRate * elapsedTimeInMs,
                            bucket.options.maximumCapacity) ]

\* const currentTimestamp = Date.now(); ...: the refill for the time elapsed
\* since lastTimestamp, in capacity units refillRate * elapsedTimeInMs.
refreshCapacity(bucket, clock) ==
    LET elapsedTimeInMs == clock - bucket.lastTimestamp
    IN [ bucket EXCEPT
           !.lastTimestamp = clock,
           !.capacity = Min(@ + bucket.options.refillRate * elapsedTimeInMs,
                            bucket.options.maximumCapacity) ]

\* Mutant: the wait is computed as (0 - capacity) / refillRate.
timeForThisToWait_fromZero(bucket) ==
    ((0 - bucket.capacity) * WaitDen) \div bucket.options.refillRate

\* (1 - this.capacity) / this.options.refillRate, in wait units; may be negative.
timeForThisToWait(bucket) ==
    ((Token - bucket.capacity) * WaitDen) \div bucket.options.refillRate

\* Mutant: a bucket without a token is not driven below zero.
debit_floorAtZero(bucket) == [ bucket EXCEPT !.capacity = Max(@ - Token, 0) ]

\* this.capacity -= 1
debit(bucket) == [ bucket EXCEPT !.capacity = @ - Token ]

\* Mutant: the wait of the parent chain is dropped.
maxWait_ownOnly(forThis, forParent) == Max(0, forThis)

\* Mutant: the bucket's own (1 - capacity) / refillRate is returned as it is.
maxWait_rawOwn(forThis, forParent) == forThis

\* Math.max(minTimeToWait, timeForThisToWait, timeForParentToWait)
maxWait(forThis, forParent) == Max(0, Max(forThis, forParent))

\* The statements of one take() on bucket b that write to a bucket, in the
\* order the body runs them: this.addOneToMetrics(), this.refreshCapacity(),
\* those of this.options.parent?.take() (ofParent), this.capacity -= 1.
mutations(b, ofParent) ==
    << [ b |-> b, by |-> "addOneToMetrics" ],
       [ b |-> b, by |-> "refreshCapacity" ] >>
    \o ofParent
    \o << [ b |-> b, by |-> "debit" ] >>

\* Mutant: the debit is applied to every child of the bucket's parent, as if
\* the children shared one capacity.
RECURSIVE take_debitsSiblings(_, _, _)
take_debitsSiblings(bs, b, clock) ==
    LET refreshed == refreshCapacity(addOneToMetrics(bs[b], clock), clock)
        bs1 == [ bs EXCEPT ![b] = refreshed ]
        forThis == timeForThisToWait(refreshed)
        up == IF refreshed.options.parent # NoParent
              THEN take_debitsSiblings(bs1, refreshed.options.parent, clock)
              ELSE [ buckets |-> bs1, wait |-> 0, writes |-> << >> ]
        bs2 == [ x \in DOMAIN up.buckets |->
                   IF x = b \/ (refreshed.options.parent # NoParent
                                /\ up.buckets[x].options.parent
                                     = refreshed.options.parent)
                   THEN debit(up.buckets[x]) ELSE up.buckets[x] ]
    IN [ buckets |-> bs2, wait |-> maxWait(forThis, up.wait),
         writes |-> mutations(b, up.writes) ]

\* Mutant: the bucket writes back the state it read before the parent's take,
\* so the parent chain's updates are lost.
RECURSIVE take_losesParentUpdate(_, _, _)
take_losesParentUpdate(bs, b, clock) ==
    LET refreshed == refreshCapacity(addOneToMetrics(bs[b], clock), clock)
        bs1 == [ bs EXCEPT ![b] = refreshed ]
        forThis == timeForThisToWait(refreshed)
        up == IF refreshed.options.parent # NoParent
              THEN take_losesParentUpdate(bs1, refreshed.options.parent, clock)
              ELSE [ buckets |-> bs1, wait |-> 0, writes |-> << >> ]
        bs2 == [ bs1 EXCEPT ![b] = debit(@) ]
    IN [ buckets |-> bs2, wait |-> maxWait(forThis, up.wait),
         writes |-> mutations(b, up.writes) ]

\* Mutant: the bucket debits itself before it calls the parent's take.
RECURSIVE take_debitsBeforeParent(_, _, _)
take_debitsBeforeParent(bs, b, clock) ==
    LET refreshed == refreshCapacity(addOneToMetrics(bs[b], clock), clock)
        forThis == timeForThisToWait(refreshed)
        bs1 == [ bs EXCEPT ![b] = debit(refreshed) ]
        up == IF refreshed.options.parent # NoParent
              THEN take_debitsBeforeParent(bs1, refreshed.options.parent, clock)
              ELSE [ buckets |-> bs1, wait |-> 0, writes |-> << >> ]
    IN [ buckets |-> up.buckets, wait |-> maxWait(forThis, up.wait),
         writes |-> << [ b |-> b, by |-> "addOneToMetrics" ],
                       [ b |-> b, by |-> "refreshCapacity" ],
                       [ b |-> b, by |-> "debit" ] >> \o up.writes ]

\* take() on bucket b of bs, every Date.now() of the call reading clock:
\* the buckets after the call, the number returned and the writes to the
\* buckets in the order they were made.
RECURSIVE take(_, _, _)
take(bs, b, clock) ==
    LET refreshed == refreshCapacity(addOneToMetrics(bs[b], clock), clock)
        bs1 == [ bs EXCEPT ![b] = refreshed ]
        forThis == timeForThisToWait(refreshed)
        up == IF refreshed.options.parent # NoParent
              THEN take(bs1, refreshed.options.parent, clock)
              ELSE [ buckets |-> bs1, wait |-> 0, writes |-> << >> ]
        bs2 == [ up.buckets EXCEPT ![b] = debit(@) ]
    IN [ buckets |-> bs2, wait |-> maxWait(forThis, up.wait),
         writes |-> mutations(b, up.writes) ]

\* A caller's call buckets[b].take(): its effect on buckets, log and last.
\* A log entry keeps the bucket, the clock reading, the number returned, the
\* capacity the call left in the bucket and the writes the call made.
CallTake(b, wait) ==
    /\ Len(log) < MaxTakes
    /\ LET r == take(buckets, b, now)
       IN /\ wait = r.wait
          /\ buckets' = r.buckets
          /\ log' = Append(log, [ b |-> b, at |-> now, wait |-> r.wait,
                                  left |-> r.buckets[b].capacity,
                                  writes |-> r.writes ])
          /\ last' = [ op |-> "take", b |-> b, threw |-> FALSE,
                       maximumCapacity |-> buckets[b].options.maximumCapacity,
                       refillRate |-> buckets[b].options.refillRate,
                       metadata |-> NoMetadata ]
    /\ UNCHANGED now

Take(b) ==
    /\ \E wait \in {take(buckets, b, now).wait} : CallTake(b, wait)
    /\ UNCHANGED tasks

(***************************************************************************)
(* metadata                                                                *)
(***************************************************************************)
\* The object the getter returns for bucket b of bs: options and metrics of
\* b, then (its parent field) the same of b's parent, and so on; the
\* nesting is kept as a sequence that ends with the root, whose parent field
\* is undefined.
RECURSIVE metadata(_, _)
metadata(bs, b) ==
    << [ options |-> [ maximumCapacity |-> bs[b].options.maximumCapacity,
                       refillRate |-> bs[b].options.refillRate ],
         metrics |-> [ firstTimestamp |-> bs[b].firstTimestamp,
                       lastTimestamp |-> bs[b].lastTimestamp,
                       count |-> bs[b].count,
                       capacity |-> bs[b].capacity ] ] >>
    \o (IF bs[b].options.parent # NoParent
        THEN metadata(bs, bs[b].options.parent)
        ELSE << >>)

\* Mutant: the getter refills the bucket before it reports.
ReadMetadata_refills(b) ==
    /\ buckets' = [ buckets EXCEPT ![b] = refreshCapacity(@, now) ]
    /\ last' = [ op |-> "metadata", b |-> b, threw |-> FALSE,
                 maximumCapacity |-> buckets[b].options.maximumCapacity,
                 refillRate |-> buckets[b].options.refillRate,
                 metadata |-> metadata(buckets', b) ]
    /\ UNCHANGED <<now, log, tasks>>

\* A caller reads buckets[b].metadata.
ReadMetadata(b) ==
    /\ last' = [ op |-> "metadata", b |-> b, threw |-> FALSE,
                 maximumCapacity |-> buckets[b].options.maximumCapacity,
                 refillRate |-> buckets[b].options.refillRate,
                 metadata |-> metadata(buckets, b) ]
    /\ UNCHANGED <<now, buckets, log, tasks>>

(***************************************************************************)
(* sleep / withTokenBucket                                                 *)
(***************************************************************************)
\* setTimeout(resolve, ms): the timer set elapsedMs ago with delay ms has
\* expired.  ms is a number in the unit of take's result (1 = WaitSecond).
sleepOver(ms, elapsedMs) == elapsedMs * WaitSecond >= ms

\* const timeToWaitInMs = tokenBucket.take(); await sleep(timeToWaitInMs)
\* up to the suspension at the await.
WithTokenBucket(b) ==
    /\ Len(tasks) < MaxCalls
    /\ \E wait \in {take(buckets, b, now).wait} :
          /\ CallTake(b, wait)
          /\ tasks' = Append(tasks, [ pc |-> "sleeping", b |-> b,
                                      takeAt |-> now, wait |-> wait,
                                      timeToWaitInMs |-> wait,
                                      cbAt |-> Undefined,
                                      cbCalls |-> 0,
                                      cb |-> "pending",
                                      result |-> "pending" ])

\* The timer of task t expires, sleep's promise resolves and the function
\* resumes after the await: it calls cb() and awaits the promise cb returns.
SleepResolves(t) ==
    /\ tasks[t].pc = "sleeping"
    /\ sleepOver(tasks[t].timeToWaitInMs, now - tasks[t].takeAt)
    /\ tasks' = [ tasks EXCEPT ![t].pc = "awaiting cb", ![t].cbAt = now,
                               ![t].cbCalls = @ + 1 ]
    /\ last' = [ last EXCEPT !.op = "cb" ]
    /\ UNCHANGED <<now, buckets, log>>

\* Mutant: a call whose action failed gives its token back to the bucket.
CbSettles_refundsOnReject(t, how) ==
    /\ tasks[t].pc = "awaiting cb"
    /\ tasks' = [ tasks EXCEPT ![t].pc = "done", ![t].cb = how, ![t].result = how ]
    /\ last' = [ last EXCEPT !.op = "settle" ]
    /\ buckets' = IF how = "rejected"
                  THEN [ buckets EXCEPT ![tasks[t].b].capacity = @ + Token ]
                  ELSE buckets
    /\ UNCHANGED <<now, log>>

\* return await cb(): the promise cb returned settles (cb) and the promise of
\* withTokenBucket settles the same way (result).
CbSettles(t, how) ==
    /\ tasks[t].pc = "awaiting cb"
    /\ tasks' = [ tasks EXCEPT ![t].pc = "done", ![t].cb = how, ![t].result = how ]
    /\ last' = [ last EXCEPT !.op = "settle" ]
    /\ UNCHANGED <<now, buckets, log>>

(***************************************************************************)
(* The clock                                                               *)
(***************************************************************************)
Advance(d) ==
    /\ now + d <= MaxClock * HalfSecond
    /\ now' = now + d
    /\ UNCHANGED <<buckets, last, log, tasks>>

\* The system clock is set back by d: Date.now() is the wall clock, which
\* an adjustment of the system time can move backwards.
ClockSetBack(d) ==
    /\ now - d >= 0
    /\ now' = now - d
    /\ UNCHANGED <<buckets, last, log, tasks>>

Init ==
    /\ now = 0
    /\ buckets = <<>>
    /\ last = [ op |-> "none", b |-> NoParent, threw |-> FALSE,
                maximumCapacity |-> 0, refillRate |-> 0,
                metadata |-> NoMetadata ]
    /\ log = <<>>
    /\ tasks = <<>>

Next ==
    \/ \E o \in OptionInputs : \E p \in {NoParent} \cup Ids : New(o, p)
    \/ \E p \in Ids : \E o \in OptionInputs \cup {NoOptions} : Child(p, o)
    \/ \E b \in Ids : Take(b)
    \/ \E d \in {HalfSecond} : Advance(d)

Spec == Init /\ [][Next]_vars

(***************************************************************************)
(* A program that builds its buckets when it starts, at clock reading 0,   *)
(* and then calls take: its initial states are the trees of Shapes, with   *)
(* the options of each bucket drawn from TreeOptions.                      *)
(***************************************************************************)
TreesOf(shape) ==
    { [ i \in DOMAIN shape |-> NewBucket(o[i][1], o[i][2], shape[i], 0) ] :
        o \in [ DOMAIN shape -> TreeOptions ] }

InitTree ==
    /\ now = 0
    /\ buckets \in UNION { TreesOf(shape) : shape \in Shapes }
    /\ last = [ op |-> "constructor", b |-> Len(buckets), threw |-> FALSE,
                maximumCapacity |-> buckets[Len(buckets)].options.maximumCapacity,
                refillRate |-> buckets[Len(buckets)].options.refillRate,
                metadata |-> NoMetadata ]
    /\ log = <<>>
    /\ tasks = <<>>

NextTree ==
    \/ \E b \in Ids : Take(b)
    \/ \E d \in {HalfSecond} : Advance(d)

SpecTree == InitTree /\ [][NextTree]_vars

(***************************************************************************)
(* A program that makes one bucket when it starts, at clock reading 0, and *)
(* derives every other bucket from it with child() while it takes.         *)
(***************************************************************************)
InitRoot ==
    /\ now = 0
    /\ \E o \in ValidOptions : buckets = << NewBucket(o[1], o[2], NoParent, 0) >>
    /\ last = [ op |-> "constructor", b |-> Len(buckets), threw |-> FALSE,
                maximumCapacity |-> buckets[Len(buckets)].options.maximumCapacity,
                refillRate |-> buckets[Len(buckets)].options.refillRate,
                metadata |-> NoMetadata ]
    /\ log = <<>>
    /\ tasks = <<>>

NextFamily ==
    \/ \E p \in Ids : \E o \in OptionInputs \cup {NoOptions} : Child(p, o)
    \/ \E b \in Ids : Take(b)
    \/ \E d \in {HalfSecond} : Advance(d)

SpecFamily == InitRoot /\ [][NextFamily]_vars

(***************************************************************************)
(* A program that builds a chain of three buckets (a bucket of any of the  *)
(* TreeOptions, its child, the child's child) at clock reading 0, and      *)
(* whose callers take from them and read their metadata.                   *)
(***************************************************************************)
InitChain ==
    /\ now = 0
    /\ \E r \in TreeOptions : \E o \in [ 2..3 -> ValidOptions ] :
          buckets = [ i \in 1..3 |->
                        IF i = 1 THEN NewBucket(r[1], r[2], NoParent, 0)
                        ELSE NewBucket(o[i][1], o[i][2], i - 1, 0) ]
    /\ last = [ op |-> "constructor", b |-> Len(buckets), threw |-> FALSE,
                maximumCapacity |-> buckets[Len(buckets)].options.maximumCapacity,
                refillRate |-> buckets[Len(buckets)].options.refillRate,
                metadata |-> NoMetadata ]
    /\ log = <<>>
    /\ tasks = <<>>

NextReader ==
    \/ \E b \in Ids : Take(b)
    \/ \E b \in Ids : ReadMetadata(b)
    \/ \E d \in {HalfSecond} : Advance(d)

SpecReader == InitChain /\ [][NextReader]_vars

(***************************************************************************)
(* The chain of three on a machine whose clock can also be set back.       *)
(***************************************************************************)
NextClock ==
    \/ \E b \in Ids : Take(b)
    \/ \E d \in {HalfSecond} : Advance(d)
    \/ \E d \in {HalfSecond} : ClockSetBack(d)

SpecClock == InitChain /\ [][NextClock]_vars

(***************************************************************************)
(* The program of SpecTree with callers that go through withTokenBucket.   *)
(***************************************************************************)
NextHelper ==
    \/ \E b \in Ids : WithTokenBucket(b)
    \/ \E t \in DOMAIN tasks : SleepResolves(t)
    \/ \E t \in DOMAIN tasks : \E how \in {"resolved", "rejected"} : CbSettles(t, how)
    \/ \E d \in {HalfSecond} : Advance(d)

SpecHelper == InitTree /\ [][NextHelper]_vars

(***************************************************************************)
(* Concurrent callers of withTokenBucket on buckets that share an          *)
(* ancestor: a parent and the two children it made with child(), built at  *)
(* clock reading 0.                                                        *)
(***************************************************************************)
InitCallers ==
    /\ now = 0
    /\ \E p \in ValidOptions :
          buckets = << NewBucket(p[1], p[2], NoParent, 0),
                       NewBucket(p[1], p[2], 1, 0),
                       NewBucket(p[1], p[2], 1, 0) >>
    /\ last = [ op |-> "constructor", b |-> Len(buckets), threw |-> FALSE,
                maximumCapacity |-> buckets[Len(buckets)].options.maximumCapacity,
                refillRate |-> buckets[Len(buckets)].options.refillRate,
                metadata |-> NoMetadata ]
    /\ log = <<>>
    /\ tasks = <<>>

SpecCallers == InitCallers /\ [][NextHelper]_vars

(***************************************************************************)
(* Vocabulary of the properties                                            *)
(***************************************************************************)
\* Bucket b and its ancestors, following options.parent up to the root.
RECURSIVE Chain(_, _)
Chain(bs, b) ==
    IF bs[b].options.parent = NoParent THEN {b}
    ELSE {b} \cup Chain(bs, bs[b].options.parent)

IsRoot(b) == buckets[b].options.parent = NoParent

\* The capacity of a bucket after a refill at clock reading clock:
\* min(capacity + refillRate * elapsed, maximumCapacity).
Refilled(bucket, clock) ==
    LET c == bucket.capacity
             + bucket.options.refillRate * (clock - bucket.lastTimestamp)
    IN IF c <= bucket.options.maximumCapacity THEN c
       ELSE bucket.options.maximumCapacity

\* max(0, (1 - c) / refillRate) in wait units.
WaitAt(c, refillRate) ==
    IF c >= Token THEN 0 ELSE ((Token - c) * WaitDen) \div refillRate

\* The largest element of a non-empty set of integers.
Largest(S) == CHOOSE x \in S : \A y \in S : y <= x

\* This step is a call of take() by a caller, on bucket Taken.
TakeStep == Len(log') = Len(log) + 1
Taken == log'[Len(log')].b

\* The instant at which the caller of log entry e redeems its token,
\* e.at + e.wait seconds, in wait units.
Redeem(e) == e.at * WaitMs + e.wait

\* The calls of take() made on bucket b itself, in call order.
OnBucket(b) == SelectSeq(log, LAMBDA e : e.b = b)

\* Every take that reached bucket b was a call on b itself.
DirectOnly(b) == buckets[b].count = Len(OnBucket(b))

\* Bucket b, its parent, its parent's parent, ... up to the root, in order.
RECURSIVE ChainSeq(_, _)
ChainSeq(bs, b) ==
    <<b>> \o (IF bs[b].options.parent = NoParent THEN << >>
              ELSE ChainSeq(bs, bs[b].options.parent))

\* The calls of take() that passed through bucket b: those made on b or on a
\* descendant of b.
Through(b) == { i \in DOMAIN log : b \in Chain(buckets, log[i].b) }

\* The sum of the take counts of the buckets of S.
RECURSIVE SumOfCounts(_)
SumOfCounts(S) ==
    IF S = {} THEN 0
    ELSE LET x == CHOOSE y \in S : TRUE
         IN buckets[x].count + SumOfCounts(S \ {x})

\* The children of bucket b.
Children(b) == { c \in Ids : buckets[c].options.parent = b }

\* This step is a call of the constructor, by new or by child().
ConstructorStep ==
    last'.op = "constructor" /\ now' = now /\ log' = log /\ tasks' = tasks

\* This step is a read of metadata (a take or a constructor overwrites
\* last.op, a clock step changes now).
MetadataStep == last'.op = "metadata" /\ now' = now

(***************************************************************************)
(* C1.  One call b.take() lowers the capacity of b and of every ancestor   *)
(* of b, as it is after the refill of that call, by exactly one token, and *)
(* raises their take count by exactly one, whether or not a token was      *)
(* available: the capacity is not clamped from below.                      *)
(***************************************************************************)
C1_TakeDebitsWholeChain ==
    [][ TakeStep =>
          \A a \in Chain(buckets, Taken) :
              /\ buckets'[a].capacity = Refilled(buckets[a], now) - Token
              /\ buckets'[a].count = buckets[a].count + 1 ]_vars

\* A take on a grandchild has driven the grandchild, its parent and the root
\* below zero.
C1_Witness ==
    /\ last.op = "take"
    /\ Cardinality(Chain(buckets, last.b)) = 3
    /\ \A a \in Chain(buckets, last.b) :
          buckets[a].capacity < 0 /\ buckets[a].count >= 2

(***************************************************************************)
(* C2.  take() returns the maximum over the bucket and its ancestors of    *)
(* max(0, (1 - c_i) / refillRate_i), c_i the capacity of bucket i after    *)
(* its refill and before its debit in this call.                           *)
(***************************************************************************)
C2_TakeReturnsChainMaximum ==
    [][ TakeStep =>
          log'[Len(log')].wait =
              Largest({ WaitAt(Refilled(buckets[a], now),
                               buckets[a].options.refillRate) :
                          a \in Chain(buckets, Taken) }) ]_vars

\* A child that had a token to give reported the wait of an exhausted
\* ancestor.
C2_Witness ==
    /\ log # <<>>
    /\ last.op = "take"
    /\ ~IsRoot(last.b)
    /\ buckets[last.b].capacity >= 0
    /\ log[Len(log)].wait > 0

(***************************************************************************)
(* C3.  Nested quota: when every caller performs its request at the        *)
(* instant of its take plus the wait returned, then for every bucket B and *)
(* every window of length T the requests performed in the window by        *)
(* callers whose take passed through B number at most                      *)
(* maximumCapacity_B + refillRate_B * T.  (Windows that begin and end at a *)
(* request are the tightest ones.)                                         *)
(***************************************************************************)
C3_NestedQuotaEnforced ==
    \A B \in Ids :
        LET performed == { i \in DOMAIN log :
                             /\ B \in Chain(buckets, log[i].b)
                             /\ Redeem(log[i]) <= now * WaitMs }
        IN \A i \in performed : \A j \in performed :
              Redeem(log[i]) <= Redeem(log[j]) =>
                 Cardinality({ k \in performed :
                                 /\ Redeem(log[i]) <= Redeem(log[k])
                                 /\ Redeem(log[k]) <= Redeem(log[j]) })
                      * Token * WaitDen
                    <= buckets[B].options.maximumCapacity * WaitDen
                       + buckets[B].options.refillRate
                           * (Redeem(log[j]) - Redeem(log[i]))

(***************************************************************************)
(* C4.  The constructor, called directly or by child(overrides), makes a   *)
(* bucket exactly when maximumCapacity >= 1 and refillRate > 0; otherwise  *)
(* it throws, no bucket is made and every bucket is left as it was.  (A    *)
(* step that leaves the clock, the log and the tasks alone and ends with   *)
(* last.op = "constructor" is a call of the constructor with the options   *)
(* that last records.)                                                     *)
(***************************************************************************)
C4_ConstructionValidates ==
    [][ (/\ last'.op = "constructor"
         /\ now' = now /\ log' = log /\ tasks' = tasks) =>
           IF last'.maximumCapacity >= Token /\ last'.refillRate > 0
           THEN /\ ~last'.threw
                /\ Len(buckets') = Len(buckets) + 1
                /\ \A i \in Ids : buckets'[i] = buckets[i]
           ELSE /\ last'.threw
                /\ buckets' = buckets ]_vars

\* child() with invalid overrides threw on a parent that has been taken from.
C4_Witness ==
    /\ last.op = "constructor"
    /\ last.threw
    /\ last.b # NoParent
    /\ buckets[last.b].count > 0

(***************************************************************************)
(* C5.  On a full root bucket, with no time elapsing, the first            *)
(* floor(maximumCapacity) calls of take() return 0 and the next one        *)
(* returns more than 0, also when maximumCapacity is not an integer.       *)
(***************************************************************************)
C5_FullBucketGivesFloorOfMaximum ==
    \A b \in Ids :
        LET T == OnBucket(b)
            full == buckets[b].options.maximumCapacity \div Token
        IN (/\ IsRoot(b)
            /\ DirectOnly(b)
            /\ \A k \in DOMAIN T : T[k].at = T[1].at)
           => \A k \in DOMAIN T :
                 /\ k <= full => T[k].wait = 0
                 /\ k = full + 1 => T[k].wait > 0

\* A root of 1.5 tokens, taken from twice at the clock reading of its
\* construction: 0, then a wait.
C5_Witness ==
    /\ now = 0
    /\ \E b \in Ids :
          /\ IsRoot(b)
          /\ buckets[b].options.maximumCapacity % Token # 0
          /\ Len(OnBucket(b)) = 2
          /\ OnBucket(b)[1].wait = 0
          /\ OnBucket(b)[2].wait > 0

(***************************************************************************)
(* C6.  A root bucket left at capacity 0 and taken from again t seconds    *)
(* later has c' = min(refillRate * t, maximumCapacity) after the refill;   *)
(* with no more time elapsing, floor(c') takes return 0 and the next one   *)
(* returns (1 - (c' - floor(c'))) / refillRate.                            *)
(***************************************************************************)
C6_RefillFromZero ==
    \A b \in Ids :
        LET T == OnBucket(b)
            rate == buckets[b].options.refillRate
        IN (IsRoot(b) /\ DirectOnly(b)) =>
            \A d \in DOMAIN T : \A j \in DOMAIN T :
               (/\ d < j
                /\ T[d].left = 0
                /\ \A i \in (d + 1)..j : T[i].at = T[j].at)
               => LET c == Min(rate * (T[j].at - T[d].at),
                               buckets[b].options.maximumCapacity)
                      k == j - d
                  IN /\ k <= c \div Token => T[j].wait = 0
                     /\ k = (c \div Token) + 1 =>
                           T[j].wait * rate = (Token - (c % Token)) * WaitDen

\* A root emptied to 0, left idle, then taken from twice: 0, then a wait.
C6_Witness ==
    \E b \in Ids :
        /\ IsRoot(b)
        /\ Len(OnBucket(b)) = 3
        /\ OnBucket(b)[1].left = 0
        /\ OnBucket(b)[1].at < OnBucket(b)[2].at
        /\ OnBucket(b)[2].at = OnBucket(b)[3].at
        /\ OnBucket(b)[2].wait = 0
        /\ OnBucket(b)[3].wait > 0

(***************************************************************************)
(* C7.  No bucket ever holds more than its maximumCapacity, however long   *)
(* it was idle; so at one clock reading at most floor(maximumCapacity)     *)
(* takes on a root bucket return 0.                                        *)
(***************************************************************************)
C7_CapacityNeverExceedsMaximum ==
    /\ \A b \in Ids : buckets[b].capacity <= buckets[b].options.maximumCapacity
    /\ \A b \in Ids : \A i \in DOMAIN log :
          (IsRoot(b) /\ log[i].b = b) =>
             Cardinality({ k \in DOMAIN log :
                             /\ log[k].b = b
                             /\ log[k].at = log[i].at
                             /\ log[k].wait = 0 })
                <= buckets[b].options.maximumCapacity \div Token

\* A take after an idle period whose refill, unclamped, would have passed
\* maximumCapacity.
C7_Witness ==
    \E b \in Ids : \E i \in DOMAIN log : \E j \in DOMAIN log :
        /\ IsRoot(b) /\ DirectOnly(b)
        /\ i < j /\ log[i].b = b /\ log[j].b = b
        /\ log[i].left + buckets[b].options.refillRate * (log[j].at - log[i].at)
              > buckets[b].options.maximumCapacity
        /\ log[j].left = buckets[b].options.maximumCapacity - Token

(***************************************************************************)
(* C8.  A take on bucket A changes A and the ancestors of A only: every    *)
(* other bucket (a sibling, a descendant, another tree) keeps its          *)
(* capacity, lastTimestamp, firstTimestamp and count.                      *)
(***************************************************************************)
C8_TakeLeavesOtherBucketsAlone ==
    [][ TakeStep =>
          /\ Len(buckets') = Len(buckets)
          /\ \A x \in Ids \ Chain(buckets, Taken) : buckets'[x] = buckets[x] ]_vars

\* One child is in debt, its sibling is untouched, their parent was debited
\* by both of the first child's takes.
C8_Witness ==
    \E a \in Ids : \E s \in Ids :
        /\ a # s
        /\ ~IsRoot(a)
        /\ buckets[a].options.parent = buckets[s].options.parent
        /\ buckets[a].capacity < 0
        /\ buckets[s].count = 0
        /\ buckets[s].capacity = buckets[s].options.maximumCapacity
        /\ buckets[buckets[a].options.parent].count = 2

(***************************************************************************)
(* C9.  FIFO: of two takes on the same bucket, the later call is never     *)
(* told to redeem before the earlier one (the clock not going backwards).  *)
(***************************************************************************)
C9_RedeemInCallOrder ==
    \A i \in DOMAIN log : \A j \in DOMAIN log :
        (i < j /\ log[i].b = log[j].b) => Redeem(log[i]) <= Redeem(log[j])

\* Two takes on one bucket at different clock readings, the later one made
\* while the earlier caller is still waiting, and a take elsewhere in the tree.
C9_Witness ==
    /\ Len(log) = 3
    /\ \E i \in DOMAIN log : \E j \in DOMAIN log : \E k \in DOMAIN log :
          /\ i < j
          /\ log[i].b = log[j].b
          /\ log[k].b # log[i].b
          /\ Chain(buckets, log[i].b) \cap Chain(buckets, log[k].b) # {}
          /\ log[i].at < log[j].at
          /\ log[i].wait > 0
          /\ Redeem(log[i]) > log[j].at * WaitMs

(***************************************************************************)
(* C10.  withTokenBucket calls the action no earlier than the wait take    *)
(* returned, a number of seconds, after its call of take.                  *)
(***************************************************************************)
C10_HelperHonoursTheWait ==
    \A t \in DOMAIN tasks :
        tasks[t].cbAt # Undefined =>
            (tasks[t].cbAt - tasks[t].takeAt) * WaitMs >= tasks[t].wait

(***************************************************************************)
(* C11.  Every call of withTokenBucket calls take exactly once (the calls  *)
(* of take are the calls of withTokenBucket, one for one) and calls the    *)
(* action exactly once, after the timer of its sleep has expired; its      *)
(* promise settles as the action's promise did, resolved or rejected; and  *)
(* the step in which the action settles, also with an error, leaves every  *)
(* bucket and the calls of take as they were: no retry, no second take, no *)
(* refund.                                                                 *)
(***************************************************************************)
C11_HelperTakesOnceCallsOnce ==
    [][ /\ Len(log') = Len(tasks')
        /\ \A t \in DOMAIN tasks' :
              LET task == tasks'[t]
              IN /\ log'[t].b = task.b
                 /\ log'[t].at = task.takeAt
                 /\ log'[t].wait = task.timeToWaitInMs
                 /\ task.cbCalls = (IF task.pc = "sleeping" THEN 0 ELSE 1)
                 /\ task.cbCalls = 1 =>
                       /\ task.cbAt >= task.takeAt
                       /\ sleepOver(task.timeToWaitInMs, task.cbAt - task.takeAt)
                 /\ task.pc = "done" =>
                       /\ task.cb \in {"resolved", "rejected"}
                       /\ task.result = task.cb
                 /\ task.pc # "done" => task.result = "pending"
        /\ (\E t \in DOMAIN tasks : tasks[t].pc # "done" /\ tasks'[t].pc = "done")
              => (buckets' = buckets /\ log' = log) ]_vars

\* The action of a call that had to wait failed, the call's promise is
\* rejected and its bucket is still in debt; another call resolved.
C11_Witness ==
    \E t \in DOMAIN tasks : \E u \in DOMAIN tasks :
        /\ tasks[t].pc = "done"
        /\ tasks[t].result = "rejected"
        /\ tasks[t].wait > 0
        /\ tasks[t].cbCalls = 1
        /\ buckets[tasks[t].b].capacity < 0
        /\ tasks[u].pc = "done"
        /\ tasks[u].result = "resolved"

(***************************************************************************)
(* C12.  A call of withTokenBucket whose take returned 0 calls its action  *)
(* without being suspended: while such a call has taken and not yet called *)
(* its action, no other call's take and no other call's callback or action *)
(* runs.                                                                   *)
(***************************************************************************)
C12_ZeroWaitIsNotSuspended ==
    [][ \A t \in DOMAIN tasks :
          (tasks[t].pc = "sleeping" /\ tasks[t].wait = 0) =>
             \/ tasks'[t].pc # "sleeping"
             \/ (log' = log /\ tasks' = tasks) ]_vars

(***************************************************************************)
(* C13.  Reading metadata changes no field of any bucket (in particular it *)
(* does not refill) and returns, for the bucket and then for each ancestor *)
(* up to the root, where the nesting ends, the configured maximumCapacity  *)
(* and refillRate and the stored firstTimestamp, lastTimestamp, count and  *)
(* capacity.  So a bucket no take passed through reports firstTimestamp    *)
(* undefined, count 0 and capacity maximumCapacity; and a bucket that n    *)
(* takes passed through, all at one clock reading, reports count n,        *)
(* capacity maximumCapacity - n and that reading as lastTimestamp, also    *)
(* when the clock has moved on since.                                      *)
(***************************************************************************)
C13_MetadataIsPureRead ==
    [][ MetadataStep =>
          LET b == last'.b
              m == last'.metadata
              up == ChainSeq(buckets, b)
              T == Through(b)
              n == Cardinality(T)
          IN /\ buckets' = buckets
             /\ Len(m) = Len(up)
             /\ buckets[up[Len(up)]].options.parent = NoParent
             /\ \A k \in DOMAIN up :
                   /\ m[k].options.maximumCapacity
                         = buckets[up[k]].options.maximumCapacity
                   /\ m[k].options.refillRate = buckets[up[k]].options.refillRate
                   /\ m[k].metrics.firstTimestamp = buckets[up[k]].firstTimestamp
                   /\ m[k].metrics.lastTimestamp = buckets[up[k]].lastTimestamp
                   /\ m[k].metrics.count = buckets[up[k]].count
                   /\ m[k].metrics.capacity = buckets[up[k]].capacity
             /\ n = 0 =>
                   /\ m[1].metrics.firstTimestamp = Undefined
                   /\ m[1].metrics.count = 0
                   /\ m[1].metrics.capacity = buckets[b].options.maximumCapacity
             /\ (n > 0 /\ \A i \in T : \A j \in T : log[i].at = log[j].at) =>
                   /\ m[1].metrics.count = n
                   /\ m[1].metrics.capacity
                         = buckets[b].options.maximumCapacity - n * Token
                   /\ \A i \in T : m[1].metrics.lastTimestamp = log[i].at ]_vars

\* The metadata of the last bucket of a chain of three was read half a second
\* or more after two takes passed through it: it reports the capacity the
\* takes left, which a refill at the time of the read would have raised.
C13_Witness ==
    /\ last.op = "metadata"
    /\ Len(last.metadata) = 3
    /\ last.metadata[1].metrics.count = 2
    /\ last.metadata[1].metrics.lastTimestamp < now
    /\ last.metadata[1].metrics.capacity
          = buckets[last.b].options.maximumCapacity - 2 * Token
    /\ Refilled(buckets[last.b], now) > last.metadata[1].metrics.capacity
    /\ last.metadata[3].metrics.count = 3

(***************************************************************************)
(* C14.  p.child(), and p.child(overrides) with overrides the constructor  *)
(* accepts, yields a new bucket whose parent is p and which starts full    *)
(* (capacity = its own maximumCapacity, count 0, firstTimestamp unset)     *)
(* whatever the capacity of p; its maximumCapacity and refillRate are      *)
(* those of p without overrides and the overrides otherwise.  Every call   *)
(* of child, also one that throws, leaves p and every other bucket as it   *)
(* was.                                                                    *)
(***************************************************************************)
C14_ChildStartsFullParentUntouched ==
    [][ ConstructorStep =>
        \A p \in Ids : \A o \in OptionInputs \cup {NoOptions} :
          Child(p, o) =>
             /\ \A x \in Ids : buckets'[x] = buckets[x]
             /\ (o = NoOptions \/ (o[1] >= Token /\ o[2] > 0)) =>
                   /\ Len(buckets') = Len(buckets) + 1
                   /\ LET child == buckets'[Len(buckets')]
                      IN /\ child.options.parent = p
                         /\ child.options.maximumCapacity =
                               (IF o = NoOptions
                                THEN buckets[p].options.maximumCapacity ELSE o[1])
                         /\ child.options.refillRate =
                               (IF o = NoOptions
                                THEN buckets[p].options.refillRate ELSE o[2])
                         /\ child.capacity = child.options.maximumCapacity
                         /\ child.count = 0
                         /\ child.firstTimestamp = Undefined ]_vars

\* A child was made of a bucket in debt, with a refill rate of its own: the
\* child is full and the parent is still in debt.
C14_Witness ==
    /\ last.op = "constructor"
    /\ ~last.threw
    /\ buckets[last.b].options.parent # NoParent
    /\ buckets[last.b].capacity = buckets[last.b].options.maximumCapacity
    /\ buckets[last.b].options.refillRate
          # buckets[buckets[last.b].options.parent].options.refillRate
    /\ buckets[buckets[last.b].options.parent].capacity < 0
    /\ buckets[buckets[last.b].options.parent].count = 2

(***************************************************************************)
(* C15.  take never throws and never returns a negative number: whatever   *)
(* the capacity of the bucket and of its ancestors (full, above one token, *)
(* in debt), whatever the depth of the chain and whatever the clock reads, *)
(* also a reading earlier than the last one.                               *)
(***************************************************************************)
C15_TakeIsTotalAndNonNegative ==
    /\ \A i \in DOMAIN log : log[i].wait >= 0
    /\ last.op = "take" =>
          /\ ~last.threw
          /\ log # << >>
          /\ log[Len(log)].b = last.b

\* The last bucket of the chain was taken from at a clock reading earlier
\* than that of a previous take on it, and is in debt.
C15_Witness ==
    /\ last.op = "take"
    /\ Cardinality(Chain(buckets, last.b)) = 3
    /\ buckets[last.b].capacity < 0
    /\ \E i \in DOMAIN log :
          /\ i < Len(log)
          /\ log[i].b = last.b
          /\ log[Len(log)].at < log[i].at

(***************************************************************************)
(* C16.  firstTimestamp is set once, by the first take that reaches the    *)
(* bucket, to the clock reading of that take, whatever that reading is (0  *)
(* included), and no later take changes it.                                *)
(***************************************************************************)
C16_FirstTimestampSetOnce ==
    [][ TakeStep =>
          \A a \in Chain(buckets, Taken) :
              buckets'[a].firstTimestamp =
                 (IF buckets[a].count = 0 THEN now ELSE buckets[a].firstTimestamp)
      ]_vars

(***************************************************************************)
(* C17.  The refill of a take never lowers a capacity: at every take, for  *)
(* the bucket and each of its ancestors, the elapsed time used             *)
(* (now - lastTimestamp) is >= 0 and the capacity after the refill (the    *)
(* capacity the take leaves, plus the token it debits) is >= the capacity  *)
(* before, also when the clock reads earlier than the stored               *)
(* lastTimestamp.                                                          *)
(***************************************************************************)
C17_RefillNeverLowersCapacity ==
    [][ TakeStep =>
          \A a \in Chain(buckets, Taken) :
              /\ buckets'[a].lastTimestamp >= buckets[a].lastTimestamp
              /\ buckets'[a].capacity + Token >= buckets[a].capacity ]_vars

(***************************************************************************)
(* C18.  Debt: on a root bucket, a take that found less than one token     *)
(* after its refill (it returned a wait > 0) and the next take on the      *)
(* bucket, made at the same clock reading, return waits that differ by     *)
(* exactly 1 / refillRate seconds, the later one being the larger: the     *)
(* debited capacity is not clamped from below.                             *)
(***************************************************************************)
C18_DebtGrowsByOneOverRate ==
    \A b \in Ids :
        LET T == OnBucket(b)
            rate == buckets[b].options.refillRate
        IN (IsRoot(b) /\ DirectOnly(b)) =>
             \A k \in DOMAIN T :
                (/\ k + 1 \in DOMAIN T
                 /\ T[k].at = T[k + 1].at
                 /\ T[k].wait > 0)
                => /\ T[k + 1].wait > T[k].wait
                   /\ (T[k + 1].wait - T[k].wait) * rate = WaitSecond

\* Three takes on a root at one clock reading: the second finds the bucket
\* empty, the third finds it one token in debt.
C18_Witness ==
    \E b \in Ids :
        /\ IsRoot(b)
        /\ Len(OnBucket(b)) = 3
        /\ OnBucket(b)[1].at = OnBucket(b)[3].at
        /\ OnBucket(b)[2].wait > 0
        /\ OnBucket(b)[3].wait > OnBucket(b)[2].wait
        /\ buckets[b].capacity <= 0 - 2 * Token

(***************************************************************************)
(* C19.  Lazy refill is continuous refill.  The reference bucket of a      *)
(* bucket starts full at clock reading 0, gains refillRate * dt, clamped   *)
(* to maximumCapacity, at every advance dt of the clock (the clock of      *)
(* SpecTree advances by half seconds), and loses one token at every take   *)
(* that passes through the bucket.  At every take, the capacity of the     *)
(* bucket and of each of its ancestors after the refill (the capacity the  *)
(* take leaves, plus the token it debits) is the capacity of its reference *)
(* bucket at that moment.                                                  *)
(***************************************************************************)
\* The reference capacity c after the clock advanced by d, tick by tick.
RECURSIVE ReferenceTicks(_, _, _)
ReferenceTicks(c, bucket, d) ==
    IF d <= 0 THEN c
    ELSE ReferenceTicks(Min(c + bucket.options.refillRate * HalfSecond,
                            bucket.options.maximumCapacity),
                        bucket, d - HalfSecond)

\* The reference capacity of bucket a at clock reading now, given that it
\* was c at clock reading t, before the take of log entry i.
RECURSIVE Reference(_, _, _, _)
Reference(a, i, c, t) ==
    IF i > Len(log) THEN ReferenceTicks(c, buckets[a], now - t)
    ELSE LET ticked == ReferenceTicks(c, buckets[a], log[i].at - t)
         IN Reference(a, i + 1,
                      IF a \in Chain(buckets, log[i].b) THEN ticked - Token
                      ELSE ticked,
                      log[i].at)

C19_LazyRefillIsContinuousRefill ==
    [][ TakeStep =>
          \A a \in Chain(buckets, Taken) :
              buckets'[a].capacity + Token
                 = Reference(a, 1, buckets[a].options.maximumCapacity, 0) ]_vars

\* A bucket with a parent was taken from, left idle for two advances of the
\* clock, the first of which already filled its reference bucket, and taken
\* from again; its parent was also taken from in between.
C19_Witness ==
    /\ last.op = "take"
    /\ ~IsRoot(last.b)
    /\ Len(OnBucket(last.b)) = 2
    /\ OnBucket(last.b)[1].at + 2 * HalfSecond = OnBucket(last.b)[2].at
    /\ OnBucket(last.b)[1].left + buckets[last.b].options.refillRate * HalfSecond
          >= buckets[last.b].options.maximumCapacity
    /\ OnBucket(last.b)[2].left = buckets[last.b].options.maximumCapacity - Token
    /\ buckets[buckets[last.b].options.parent].count = 3
    /\ log[2].b = buckets[last.b].options.parent
    /\ log[2].at = HalfSecond

(***************************************************************************)
(* C20.  take is atomic for the callers of withTokenBucket, however their  *)
(* calls interleave at their awaits: every take, made while other calls    *)
(* are suspended, raises the count of the bucket and of each ancestor by   *)
(* one and debits each of them one token from its refilled capacity; the   *)
(* steps at which suspended calls resume change no bucket; so the count of *)
(* a bucket is the number of takes that passed through it, and is the      *)
(* number of takes made on the bucket itself plus the counts of its        *)
(* children.                                                               *)
(***************************************************************************)
C20_NoUpdateLostAmongCallers ==
    [][ IF TakeStep
        THEN /\ \A a \in Chain(buckets, Taken) :
                   /\ buckets'[a].count = buckets[a].count + 1
                   /\ buckets'[a].capacity = Refilled(buckets[a], now) - Token
             /\ \A b \in Ids :
                   /\ buckets'[b].count = Cardinality(Through(b))'
                   /\ buckets'[b].count
                         = (Len(OnBucket(b)) + SumOfCounts(Children(b)))'
        ELSE buckets' = buckets /\ log' = log ]_vars

\* Two calls made on the two children of one bucket are both suspended; the
\* parent was debited by both and is in debt.
C20_Witness ==
    /\ Len(tasks) = 2
    /\ tasks[1].pc = "sleeping"
    /\ tasks[2].pc = "sleeping"
    /\ tasks[1].b # tasks[2].b
    /\ ~IsRoot(tasks[1].b)
    /\ buckets[tasks[1].b].options.parent = buckets[tasks[2].b].options.parent
    /\ buckets[buckets[tasks[1].b].options.parent].count = 2
    /\ buckets[buckets[tasks[1].b].options.parent].capacity < 0

(***************************************************************************)
(* C21, as claimed.  Within one take on a bucket that has a parent, the    *)
(* bucket's own debit (capacity - 1) is written before anything is written *)
(* to the parent or to any other ancestor by the recursive take.           *)
(***************************************************************************)
C21_OwnDebitBeforeParentWrites ==
    \A i \in DOMAIN log :
        LET w == log[i].writes
        IN ~IsRoot(log[i].b) =>
             \A k \in DOMAIN w : \A j \in DOMAIN w :
                (/\ w[k] = [ b |-> log[i].b, by |-> "debit" ]
                 /\ w[j].b # log[i].b)
                => k < j

(***************************************************************************)
(* C21, amended.  One take writes to each bucket of the chain exactly      *)
(* three times (count and firstTimestamp, refill, debit), and for every    *)
(* bucket of the chain that has a parent, its count update and its refill  *)
(* are written before anything is written to its ancestors, and its debit  *)
(* is written after everything the recursive take wrote to its ancestors.  *)
(***************************************************************************)
C21_OwnDebitAfterParentWrites ==
    [][ TakeStep =>
          LET w == log'[Len(log')].writes
              chain == Chain(buckets, Taken)
          IN /\ Len(w) = 3 * Cardinality(chain)
             /\ \A a \in chain :
                   \A by \in {"addOneToMetrics", "refreshCapacity", "debit"} :
                      Cardinality({ k \in DOMAIN w :
                                      w[k] = [ b |-> a, by |-> by ] }) = 1
             /\ \A k \in DOMAIN w : \A j \in DOMAIN w :
                   (/\ w[j].b # w[k].b
                    /\ w[j].b \in Chain(buckets, w[k].b))
                   => IF w[k].by = "debit" THEN j < k ELSE k < j ]_vars

\* A take on the last bucket of a chain of three: its debit is the last
\* write of the take, right after the debit of its parent, which follows
\* the debit of the root.
C21_Witness ==
    /\ log # << >>
    /\ LET e == log[Len(log)]
           w == e.writes
       IN /\ Cardinality(Chain(buckets, e.b)) = 3
          /\ Len(w) = 9
          /\ w[1] = [ b |-> e.b, by |-> "addOneToMetrics" ]
          /\ w[9] = [ b |-> e.b, by |-> "debit" ]
          /\ w[8] = [ b |-> buckets[e.b].options.parent, by |-> "debit" ]
          /\ w[7].by = "debit"
          /\ IsRoot(w[7].b)

=============================================================================
